---- MODULE Spec2Model ----
(***************************************************************************)
(* Implicit time columns of postgresql-mod: the pg_implicit_columns        *)
(* catalog (pg_implicit_columns.c), the compatibility layer                 *)
(* (pg_implicit_compat.c) and the scan hook (execScan.c), run by several    *)
(* backend sessions inside transactions.                                    *)
(*                                                                          *)
(* Granularity.  A call of add_implicit_time_column,                        *)
(* remove_implicit_time_column or migrate_existing_table is one step from   *)
(* its entry to its return, except where the backend can block: the unique  *)
(* index insert and the heap delete wait for the transaction that holds a   *)
(* conflicting tuple version.  A blocked call is resumed by a second step   *)
(* once that transaction has ended.  Each call is its own command, so the   *)
(* catalog snapshot of a scan sees what the session's earlier commands      *)
(* wrote.                                                                   *)
(***************************************************************************)
EXTENDS Integers, FiniteSets, Sequences, TLC

(***************************************************************************)
(* Bounds of the model.                                                     *)
(***************************************************************************)
NSessions == 2
MaxAtts == 2
MaxVersions == 2

MaxRows == 2
MaxTicks == 2
TickUsecs == 600000

Sessions == 1..NSessions
Slots == 1..MaxVersions
Rows == 1..MaxRows

(***************************************************************************)
(* Program constants.                                                       *)
(***************************************************************************)
InvalidAttrNumber == 0
USECS_PER_SEC == 1000000
InvalidOid == "InvalidOid"
NullRelation == "NULL"
IMPLICIT_TIME_COLUMN_NAME == "time"
RELKIND_RELATION == "r"
RELKIND_VIEW == "v"
RELKIND_INDEX == "i"
RELPERSISTENCE_PERMANENT == "p"
RELPERSISTENCE_TEMP == "t"
TIMESTAMPOID == "timestamp"
TIMESTAMPTZOID == "timestamptz"
TEXTOID == "text"

(***************************************************************************)
(* pg_class: the relations of the database.  "orders" is an ordinary user   *)
(* table, "orders_v" a view, "pg_type" a system catalog table.  "nosuch"    *)
(* is a valid Oid that names no relation.  "events", "logs" and "archive"   *)
(* are ordinary user tables with a declared column named "time": of type    *)
(* text, of type timestamp, and of type text but dropped.  "orders_pkey"    *)
(* is an index and "scratch" a temporary table.                             *)
(***************************************************************************)
Relations ==
    {"orders", "orders_v", "pg_type", "events", "logs", "archive", "orders_pkey",
     "scratch"}

Oids == Relations \cup {"nosuch", InvalidOid}

relkind(t) ==
    IF t = "orders_v" THEN RELKIND_VIEW
    ELSE IF t = "orders_pkey" THEN RELKIND_INDEX
    ELSE RELKIND_RELATION

relpersistence(t) ==
    IF t = "scratch" THEN RELPERSISTENCE_TEMP ELSE RELPERSISTENCE_PERMANENT

IsSystemClass(t) == t = "pg_type"

\* pg_attribute: the declared column of the table named "time", as
\* SearchSysCache2(ATTNAME, table_oid, "time") finds it
NoAttribute == [found |-> FALSE]

UserTimeColumn(t) ==
    IF t = "events"
    THEN [found |-> TRUE, attisdropped |-> FALSE, atttypid |-> TEXTOID]
    ELSE IF t = "logs"
    THEN [found |-> TRUE, attisdropped |-> FALSE, atttypid |-> TIMESTAMPOID]
    ELSE IF t = "archive"
    THEN [found |-> TRUE, attisdropped |-> TRUE, atttypid |-> TEXTOID]
    ELSE NoAttribute

OidIsValid(oid) == oid # InvalidOid

RelationIsValid(rel) == rel # NullRelation

AttributeNumberIsValid(n) == n # InvalidAttrNumber

(***************************************************************************)
(* State.                                                                   *)
(*   cat[t][i]  the tuple versions of pg_implicit_columns with ic_relid =   *)
(*              t, by heap slot i (the tuple's t_self); NoTuple is a free   *)
(*              slot.  ins / del are the sets of in-progress transactions   *)
(*              that inserted / deleted the version (empty: committed /     *)
(*              not deleted).                                               *)
(*   natts[t]   pg_class.relnatts, RelationGetNumberOfAttributes.           *)
(*   pc[s]      "idle" (no transaction), "active" (in a transaction,        *)
(*              between calls), "insert" / "delete" (inside a call, at the  *)
(*              unique-index insert / at the heap delete), "checked"        *)
(*              (inside migrate_existing_table, verdict obtained, table     *)
(*              not opened yet), "scanning" (inside the scan hook, between  *)
(*              its two catalog lookups).                                   *)
(*   pend[s]    the call a session is inside of.                            *)
(*   lock[t]    the sessions holding AccessExclusiveLock on relation t.     *)
(*   heap[r]    the row versions of the user table "orders", by heap slot;  *)
(*              itime is the implicit value appended to the row (empty:     *)
(*              none).                                                      *)
(*   clock      the server's wall clock, GetCurrentTimestamp(), in          *)
(*              microseconds.                                               *)
(*   last       the call that returned, failed or blocked last, and the     *)
(*              session that made it; its inval field tells whether it      *)
(*              called CacheInvalidateRelcache.  For a transaction end,     *)
(*              inval tells whether the transaction had written the         *)
(*              catalog, and rel is "orders" when it had written rows.      *)
(*   implicit_error_context_stack[s]                                        *)
(*              the error context stack of the backend of session s: the    *)
(*              array contexts and the counter depth.                       *)
(***************************************************************************)
VARIABLES cat, natts, pc, pend, lock, last, heap, clock, implicit_error_context_stack

vars == <<cat, natts, pc, pend, lock, last, heap, clock, implicit_error_context_stack>>

NoTuple == [free |-> TRUE]

NoPend == [op |-> "none"]

\* get_table_implicit_info returned NULL, or the call returned no snapshot
NoInfo == [valid |-> FALSE]

NoCall == [sess |-> {}, op |-> "none", rel |-> InvalidOid, res |-> "none", err |-> "none",
           inval |-> FALSE, attnum |-> InvalidAttrNumber, shape |-> {}, info |-> NoInfo,
           lookups |-> 0]

Call(s, op, rel, res, err, iv) ==
    [sess |-> {s}, op |-> op, rel |-> rel, res |-> res, err |-> err, inval |-> iv,
     attnum |-> InvalidAttrNumber, shape |-> {}, info |-> NoInfo, lookups |-> 0]

(***************************************************************************)
(* The error context stack (implicit_time_error.c): a static array of       *)
(* MAX_ERROR_CONTEXT_DEPTH string pointers and a depth, one per backend.    *)
(* A slot holds NullContext (the NULL pointer) or the copy pstrdup made of  *)
(* the pushed string.                                                       *)
(***************************************************************************)
MAX_ERROR_CONTEXT_DEPTH == 10

NullContext == "NULL context"

\* the strings a caller pushes, and NULL
Contexts == {"add_implicit_time_column", "remove_implicit_time_column", NullContext}

EmptyStack ==
    [contexts |-> [i \in 0..(MAX_ERROR_CONTEXT_DEPTH - 1) |-> NullContext], depth |-> 0]

implicit_time_error_context_push(st, context) ==
    IF st.depth >= MAX_ERROR_CONTEXT_DEPTH
    THEN st
    ELSE IF context # NullContext
    THEN [contexts |-> [st.contexts EXCEPT ![st.depth] = context],
          depth |-> st.depth + 1]
    ELSE st

\* variant: the depth is decremented and the slot keeps its pointer
implicit_time_error_context_pop_keeping_slot(st) ==
    IF st.depth > 0 THEN [st EXCEPT !.depth = @ - 1] ELSE st

implicit_time_error_context_pop(st) ==
    IF st.depth > 0
    THEN LET depth == st.depth - 1 IN
         [contexts |-> IF st.contexts[depth] # NullContext
                       THEN [st.contexts EXCEPT ![depth] = NullContext]
                       ELSE st.contexts,
          depth |-> depth]
    ELSE st

\* a push at full depth logs a warning
ErrorContextPush(s, context) ==
    /\ implicit_error_context_stack' =
          [implicit_error_context_stack EXCEPT
              ![s] = implicit_time_error_context_push(@, context)]
    /\ last' = Call(s, "context_push", InvalidOid, "ok",
                    IF implicit_error_context_stack[s].depth >= MAX_ERROR_CONTEXT_DEPTH
                    THEN "context_stack_overflow" ELSE "none", FALSE)
    /\ UNCHANGED <<cat, natts, pc, pend, lock, heap, clock>>

ErrorContextPop(s) ==
    /\ implicit_error_context_stack' =
          [implicit_error_context_stack EXCEPT ![s] = implicit_time_error_context_pop(@)]
    /\ last' = Call(s, "context_pop", InvalidOid, "ok", "none", FALSE)
    /\ UNCHANGED <<cat, natts, pc, pend, lock, heap, clock>>

(***************************************************************************)
(* Tuple versions and snapshots.                                            *)
(***************************************************************************)
Used(t) == {i \in Slots : cat[t][i] # NoTuple}

\* a catalog scan of session s returns version i of relation t
VisibleIn(c, s, t, i) ==
    /\ c[t][i] # NoTuple
    /\ c[t][i].ins \subseteq {s}
    /\ s \notin c[t][i].del

Visible(s, t) == {i \in Slots : VisibleIn(cat, s, t, i)}

\* what a session outside every transaction reads: the committed catalog
Committed(t) == {i \in Slots : cat[t][i] # NoTuple /\ cat[t][i].ins = {}}

\* transaction end: the versions a session wrote become committed or vanish
CommitCat(c, s) ==
    [t \in Relations |-> [i \in Slots |->
        IF c[t][i] = NoTuple THEN NoTuple
        ELSE IF s \in c[t][i].del THEN NoTuple
        ELSE IF s \in c[t][i].ins THEN [c[t][i] EXCEPT !.ins = {}]
        ELSE c[t][i]]]

AbortCat(c, s) ==
    [t \in Relations |-> [i \in Slots |->
        IF c[t][i] = NoTuple THEN NoTuple
        ELSE IF s \in c[t][i].ins THEN NoTuple
        ELSE IF s \in c[t][i].del THEN [c[t][i] EXCEPT !.del = {}]
        ELSE c[t][i]]]

CommitHeap(h, s) ==
    [r \in DOMAIN h |->
        IF h[r] = NoTuple THEN NoTuple
        ELSE IF s \in h[r].del THEN NoTuple
        ELSE IF s \in h[r].ins THEN [h[r] EXCEPT !.ins = {}]
        ELSE h[r]]

AbortHeap(h, s) ==
    [r \in DOMAIN h |->
        IF h[r] = NoTuple THEN NoTuple
        ELSE IF s \in h[r].ins THEN NoTuple
        ELSE IF s \in h[r].del THEN [h[r] EXCEPT !.del = {}]
        ELSE h[r]]

(***************************************************************************)
(* Catalog lookups (pg_implicit_columns.c).                                 *)
(***************************************************************************)
TimeTuples(s, oid) ==
    {i \in Visible(s, oid) : cat[oid][i].ic_attname = IMPLICIT_TIME_COLUMN_NAME}

\* variant: a lookup that never finds the descriptor
table_has_implicit_time_never(s, oid) == FALSE

\* variant: a lookup that scans without the key on ic_relid
table_has_implicit_time_any_table(s, oid) ==
    IF ~OidIsValid(oid) THEN FALSE
    ELSE \E t \in Relations : TimeTuples(s, t) # {}

table_has_implicit_time(s, oid) ==
    IF ~OidIsValid(oid) THEN FALSE
    ELSE IF oid \notin Relations THEN FALSE
    ELSE TimeTuples(s, oid) # {}

\* variant: a lookup of the stored number that computes it anew
get_implicit_time_attnum_recomputed(s, oid) ==
    IF ~OidIsValid(oid) THEN InvalidAttrNumber
    ELSE IF oid \notin Relations THEN InvalidAttrNumber
    ELSE IF TimeTuples(s, oid) = {} THEN InvalidAttrNumber
    ELSE natts[oid] + 1

get_implicit_time_attnum(s, oid) ==
    IF ~OidIsValid(oid) THEN InvalidAttrNumber
    ELSE IF oid \notin Relations THEN InvalidAttrNumber
    ELSE IF TimeTuples(s, oid) = {} THEN InvalidAttrNumber
    ELSE cat[oid][CHOOSE i \in TimeTuples(s, oid) :
                    \A j \in TimeTuples(s, oid) : i <= j].ic_attnum

create_implicit_column(name, type_oid, attnum) ==
    [column_name |-> name, column_type |-> type_oid, attnum |-> attnum,
     is_active |-> TRUE, created_time |-> clock]

\* variant: a scan that also returns the uncommitted versions of others
ScanByRelidDirty(s, oid) ==
    IF oid \in Relations
    THEN SelectSeq([i \in Slots |-> i], LAMBDA i : cat[oid][i] # NoTuple)
    ELSE <<>>

\* the index scan with the one key ic_relid = oid: the visible versions
ScanByRelid(s, oid) ==
    IF oid \in Relations
    THEN SelectSeq([i \in Slots |-> i], LAMBDA i : VisibleIn(cat, s, oid, i))
    ELSE <<>>

\* variant: a snapshot whose counter is never advanced
get_table_implicit_info_uncounted(s, oid) ==
    IF ~OidIsValid(oid) THEN NoInfo
    ELSE LET scan == ScanByRelid(s, oid)
             form == [k \in 1..Len(scan) |-> cat[oid][scan[k]]]
             times == {k \in 1..Len(scan) :
                         form[k].ic_attname = IMPLICIT_TIME_COLUMN_NAME}
         IN [valid |-> TRUE, table_oid |-> oid,
             has_implicit_time |-> times # {},
             time_attnum |->
                 IF times = {} THEN InvalidAttrNumber
                 ELSE form[CHOOSE k \in times : \A j \in times : j <= k].ic_attnum,
             implicit_columns |->
                 [k \in 1..Len(scan) |->
                     create_implicit_column(form[k].ic_attname, form[k].ic_atttypid,
                                            form[k].ic_attnum)],
             num_implicit_cols |-> 0]

\* the loop appends one column per tuple of the scan and counts it; the
\* time column is the last tuple of the scan named "time"
get_table_implicit_info(s, oid) ==
    IF ~OidIsValid(oid) THEN NoInfo
    ELSE LET scan == ScanByRelid(s, oid)
             form == [k \in 1..Len(scan) |-> cat[oid][scan[k]]]
             times == {k \in 1..Len(scan) :
                         form[k].ic_attname = IMPLICIT_TIME_COLUMN_NAME}
         IN [valid |-> TRUE, table_oid |-> oid,
             has_implicit_time |-> times # {},
             time_attnum |->
                 IF times = {} THEN InvalidAttrNumber
                 ELSE form[CHOOSE k \in times : \A j \in times : j <= k].ic_attnum,
             implicit_columns |->
                 [k \in 1..Len(scan) |->
                     create_implicit_column(form[k].ic_attname, form[k].ic_atttypid,
                                            form[k].ic_attnum)],
             num_implicit_cols |-> Len(scan)]

\* the column name argument: a name, or no string at all
NullName == "NULL name"

is_implicit_column(s, oid, column_name) ==
    IF column_name = NullName THEN FALSE
    ELSE IF column_name = IMPLICIT_TIME_COLUMN_NAME THEN table_has_implicit_time(s, oid)
    ELSE FALSE

(***************************************************************************)
(* Compatibility guard (pg_implicit_compat.c).  check_column_name_conflicts *)
(* only logs a warning, so every existing relation is reported compatible.  *)
(***************************************************************************)
\* check_column_name_conflicts returns nothing: TRUE here means that it
\* logged its warning
check_column_name_conflicts(oid) ==
    LET att == UserTimeColumn(oid) IN
    IF att.found
    THEN ~att.attisdropped /\ att.atttypid # TIMESTAMPOID
    ELSE FALSE

is_system_table(oid) == IsSystemClass(oid)

is_temporary_table(oid) ==
    IF oid \in Relations THEN relpersistence(oid) = RELPERSISTENCE_TEMP ELSE FALSE

\* variant: a verdict that accepts ordinary user tables only
check_backward_compatibility_ordinary_only(oid) ==
    IF ~OidIsValid(oid) THEN FALSE
    ELSE IF oid \notin Relations THEN FALSE
    ELSE IF relkind(oid) # RELKIND_RELATION THEN FALSE
    ELSE IF is_system_table(oid) THEN FALSE
    ELSE IF is_temporary_table(oid) THEN FALSE
    ELSE TRUE

check_backward_compatibility(oid) ==
    IF ~OidIsValid(oid) THEN FALSE
    ELSE IF oid \notin Relations THEN FALSE
    ELSE IF relkind(oid) # RELKIND_RELATION THEN TRUE
    ELSE IF is_system_table(oid) THEN TRUE
    ELSE IF is_temporary_table(oid) THEN TRUE
    ELSE IF check_column_name_conflicts(oid) THEN TRUE
    ELSE TRUE

\* the messages check_backward_compatibility logs
CompatibilityWarning(oid) ==
    IF ~OidIsValid(oid) THEN "warning_invalid_oid"
    ELSE IF oid \notin Relations THEN "warning_no_such_table"
    ELSE IF relkind(oid) # RELKIND_RELATION THEN "none"
    ELSE IF is_system_table(oid) THEN "none"
    ELSE IF check_column_name_conflicts(oid) THEN "warning_name_conflict"
    ELSE "none"

\* ensure_legacy_behavior returns nothing: TRUE here means that
\* check_column_name_conflicts, called for a table without the implicit
\* column, logged its warning
ensure_legacy_behavior(s, oid) ==
    IF ~table_has_implicit_time(s, oid)
    THEN check_column_name_conflicts(oid)
    ELSE FALSE

validate_insert_compatibility(s, oid) ==
    IF ~table_has_implicit_time(s, oid) THEN TRUE ELSE TRUE

validate_update_compatibility(s, oid) ==
    IF ~table_has_implicit_time(s, oid) THEN TRUE ELSE TRUE

validate_delete_compatibility(s, oid) == TRUE

\* variant: a SELECT check that rejects tables with the implicit column
validate_select_compatibility_strict(s, oid) == ~table_has_implicit_time(s, oid)

validate_select_compatibility(s, oid) ==
    IF ~table_has_implicit_time(s, oid) THEN TRUE ELSE TRUE

\* the operation argument: a statement kind, or no string at all
NullOperation == "NULL operation"

Operations == {"INSERT", "UPDATE", "DELETE", "SELECT", "TRUNCATE", NullOperation}

validate_operation_compatibility(s, oid, operation) ==
    IF operation = NullOperation THEN FALSE
    ELSE IF operation = "INSERT" THEN validate_insert_compatibility(s, oid)
    ELSE IF operation = "UPDATE" THEN validate_update_compatibility(s, oid)
    ELSE IF operation = "DELETE" THEN validate_delete_compatibility(s, oid)
    ELSE IF operation = "SELECT" THEN validate_select_compatibility(s, oid)
    ELSE TRUE

(***************************************************************************)
(* The unique index pg_implicit_columns_relid_attname_index on             *)
(* (ic_relid, ic_attname), as CatalogTupleInsert meets it: a live version   *)
(* of the key is a unique violation, a version written or deleted by a      *)
(* transaction still in progress makes the inserter wait for it.            *)
(***************************************************************************)
Conflicting(s, t) ==
    {i \in Used(t) : /\ cat[t][i].ic_attname = IMPLICIT_TIME_COLUMN_NAME
                     /\ s \notin cat[t][i].del}

LiveDup(s, t) ==
    {i \in Conflicting(s, t) : cat[t][i].ins \subseteq {s} /\ cat[t][i].del = {}}

Blockers(s, t) ==
    UNION {(cat[t][i].ins \cup cat[t][i].del) \ {s} : i \in Conflicting(s, t)}

\* variant: a catalog without the unique index lets every insert through
UniqueCheckWithoutIndex(s, t) == "ok"

UniqueCheck(s, t) ==
    IF LiveDup(s, t) # {} THEN "duplicate"
    ELSE IF Blockers(s, t) # {} THEN "wait"
    ELSE "ok"

FreeSlots(t) == Slots \ Used(t)

\* variant: a descriptor written outside the inserting transaction
NewTupleNonTransactional(s, t, attnum) ==
    [ic_relid |-> t, ic_attname |-> IMPLICIT_TIME_COLUMN_NAME,
     ic_attnum |-> attnum, ic_atttypid |-> TIMESTAMPOID, ic_visible |-> FALSE,
     ins |-> {}, del |-> {}]

\* variant: a descriptor inserted as a visible column
NewTupleVisible(s, t, attnum) ==
    [ic_relid |-> t, ic_attname |-> IMPLICIT_TIME_COLUMN_NAME,
     ic_attnum |-> attnum, ic_atttypid |-> TIMESTAMPOID, ic_visible |-> TRUE,
     ins |-> {s}, del |-> {}]

NewTuple(s, t, attnum) ==
    [ic_relid |-> t, ic_attname |-> IMPLICIT_TIME_COLUMN_NAME,
     ic_attnum |-> attnum, ic_atttypid |-> TIMESTAMPOID, ic_visible |-> FALSE,
     ins |-> {s}, del |-> {}]

\* variant: a delete that leaves the version in place
DeleteTupleSkipped(c, s, t, i) == c

\* CatalogTupleDelete of version i by session s
\* variant: a remove that blanks the descriptor's number in place
DeleteTupleInPlace(c, s, t, i) ==
    [c EXCEPT ![t][i].ic_attnum = InvalidAttrNumber]

DeleteTuple(c, s, t, i) ==
    IF s \in c[t][i].ins THEN [c EXCEPT ![t][i] = NoTuple]
    ELSE [c EXCEPT ![t][i].del = {s}]

\* variant: a remove whose scan has no key: it deletes the descriptors of
\* every table
DeleteAllEverywhere(c, s, t, S) ==
    [r \in Relations |-> [i \in Slots |->
        IF ~VisibleIn(c, s, r, i) THEN c[r][i]
        ELSE IF s \in c[r][i].ins THEN NoTuple
        ELSE [c[r][i] EXCEPT !.del = {s}]]]

RECURSIVE DeleteAll(_, _, _, _)
DeleteAll(c, s, t, S) ==
    IF S = {} THEN c
    ELSE LET i == CHOOSE x \in S : TRUE
         IN DeleteAll(DeleteTuple(c, s, t, i), s, t, S \ {i})

(***************************************************************************)
(* How a call ends.  Return: the call returns to its caller inside the      *)
(* transaction.  Raise: elog(ERROR) aborts the transaction, which undoes    *)
(* its catalog writes, drops its queued invalidations and releases its      *)
(* locks.  Block: the call waits inside the backend for the transactions    *)
(* in `on`.                                                                 *)
(***************************************************************************)
IsMigrate(op) == op \in {"migrate_add", "migrate_remove"}

Release(l, s) == [t \in Relations |-> l[t] \ {s}]

\* the end of s's transaction wakes the sessions waiting for it; a waiting
\* heap delete learns whether the version it was about to delete is gone
Wake(p, s, c) ==
    [a \in Sessions |->
        IF a = s \/ p[a] = NoPend THEN NoPend
        ELSE [p[a] EXCEPT !.on = @ \ {s},
                          !.gone = @ \/ \E i \in p[a].tid : c[p[a].rel][i] = NoTuple]]

Return(s, c, call) ==
    /\ cat' = c
    /\ pc' = [pc EXCEPT ![s] = "active"]
    /\ pend' = [pend EXCEPT ![s] = NoPend]
    /\ lock' = Release(lock, s)
    /\ last' = call
    /\ UNCHANGED <<natts, heap, clock, implicit_error_context_stack>>

\* variant: the error is logged as a warning and the call returns
RaiseAsWarning(s, call) == Return(s, cat, call)

Raise(s, call) ==
    /\ cat' = AbortCat(cat, s)
    /\ pc' = [pc EXCEPT ![s] = "idle"]
    /\ pend' = Wake(pend, s, AbortCat(cat, s))
    /\ lock' = Release(lock, s)
    /\ last' = call
    /\ heap' = AbortHeap(heap, s)
    /\ UNCHANGED <<natts, clock, implicit_error_context_stack>>

\* the fields of an error report.  elog(ERROR, ...) sets the primary
\* message and nothing else.
NoField == "absent"

elog_ERROR(message) == [message |-> message, detail |-> NoField, hint |-> NoField]

\* the report of the error a call ended with: the invalid handle of add and
\* remove (pg_implicit_columns.c:217, 278), the failed precondition of
\* migrate_existing_table and its PG_CATCH block, which replaces whatever
\* was raised inside (pg_implicit_compat.c:174, 220); the other errors are
\* the host engine's
ErrorReport(call) ==
    IF call.err = "invalid_relation"
    THEN elog_ERROR(IF call.op = "add"
                    THEN "add_implicit_time_column: invalid relation descriptor"
                    ELSE "invalid relation descriptor")
    ELSE IF call.err = "incompatible"
    THEN elog_ERROR("table is not compatible with implicit columns")
    ELSE IF IsMigrate(call.op)
    THEN elog_ERROR("error while migrating table")
    ELSE IF call.err = "unique_violation"
    THEN [message |-> "duplicate key value violates unique constraint",
          detail |-> "Key already exists", hint |-> NoField]
    ELSE IF call.err = "deadlock"
    THEN [message |-> "deadlock detected", detail |-> "Process waits for transaction",
          hint |-> "See server log for query details"]
    ELSE elog_ERROR(call.err)

Block(s, where, op, rel, attnum, tid, on) ==
    /\ pc' = [pc EXCEPT ![s] = where]
    /\ pend' = [pend EXCEPT ![s] = [op |-> op, rel |-> rel, attnum |-> attnum,
                                    tid |-> tid, on |-> on, gone |-> FALSE]]
    /\ lock' = IF IsMigrate(op) THEN [lock EXCEPT ![rel] = {s}] ELSE lock
    /\ last' = Call(s, op, rel, "blocked", "none", FALSE)
    /\ UNCHANGED <<cat, natts, heap, clock, implicit_error_context_stack>>

(***************************************************************************)
(* add_implicit_time_column from its CatalogTupleInsert on                  *)
(* (pg_implicit_columns.c:234-258): insert, then CacheInvalidateRelcache.   *)
(***************************************************************************)
\* variant: the insert without CacheInvalidateRelcache
InsertStepWithoutInvalidation(s, op, rel, attnum) ==
    LET chk == UniqueCheck(s, rel) IN
    IF chk = "duplicate"
    THEN Raise(s, Call(s, op, rel, "error", "unique_violation", FALSE))
    ELSE IF chk = "wait"
    THEN Block(s, "insert", op, rel, attnum, {}, Blockers(s, rel))
    ELSE /\ FreeSlots(rel) # {}
         /\ LET i == CHOOSE x \in FreeSlots(rel) : \A y \in FreeSlots(rel) : x <= y
            IN Return(s, [cat EXCEPT ![rel][i] = NewTuple(s, rel, attnum)],
                      Call(s, op, rel, "ok", "none", FALSE))

InsertStep(s, op, rel, attnum) ==
    LET chk == UniqueCheck(s, rel) IN
    IF chk = "duplicate"
    THEN Raise(s, Call(s, op, rel, "error", "unique_violation", FALSE))
    ELSE IF chk = "wait"
    THEN Block(s, "insert", op, rel, attnum, {}, Blockers(s, rel))
    ELSE /\ FreeSlots(rel) # {}
         /\ LET i == CHOOSE x \in FreeSlots(rel) : \A y \in FreeSlots(rel) : x <= y
            IN Return(s, [cat EXCEPT ![rel][i] = NewTuple(s, rel, attnum)],
                      Call(s, op, rel, "ok", "none", TRUE))

\* variant: the number of the last declared column, without the + 1
next_attnum_reusing_last(rel) == natts[rel]

\* the attribute number add_implicit_time_column gives the new descriptor
next_attnum(rel) == natts[rel] + 1

\* variant: add_implicit_time_column without its existence check
AddBodyWithoutExistenceCheck(s, op, rel) ==
    InsertStep(s, op, rel, natts[rel] + 1)

\* add_implicit_time_column with a valid relation handle
AddBody(s, op, rel) ==
    IF table_has_implicit_time(s, rel)
    THEN Return(s, cat, Call(s, op, rel, "noop", "none", FALSE))
    ELSE InsertStep(s, op, rel, next_attnum(rel))

(***************************************************************************)
(* remove_implicit_time_column from its scan on                             *)
(* (pg_implicit_columns.c:290-329): CatalogTupleDelete of every version     *)
(* the scan returns.  A version another transaction is deleting makes the   *)
(* heap delete wait; if that transaction commits, the delete fails with     *)
(* "tuple concurrently deleted".                                            *)
(***************************************************************************)
DeleteStep(s, op, rel) ==
    LET targets == TimeTuples(s, rel)
        busy == {i \in targets : cat[rel][i].del # {}}
    IN IF busy # {}
       THEN Block(s, "delete", op, rel, InvalidAttrNumber, busy,
                  UNION {cat[rel][i].del : i \in busy})
       ELSE IF targets # {}
       THEN Return(s, DeleteAll(cat, s, rel, targets),
                   Call(s, op, rel, "ok", "none", TRUE))
       ELSE Return(s, cat, Call(s, op, rel, "warning", "none", FALSE))

\* remove_implicit_time_column with a valid relation handle
RemoveBody(s, op, rel) ==
    IF ~table_has_implicit_time(s, rel)
    THEN Return(s, cat, Call(s, op, rel, "warning", "none", FALSE))
    ELSE DeleteStep(s, op, rel)

(***************************************************************************)
(* Locks.  A caller that holds an open Relation holds a lock on it, and     *)
(* every lock conflicts with AccessExclusiveLock: while a session is inside *)
(* migrate_existing_table on a table no other call on that table starts,    *)
(* and migrate_existing_table does not start while another session is       *)
(* inside a call on it.                                                     *)
(***************************************************************************)
\* a session that has called check_backward_compatibility and not yet
\* opened the table (pc "checked") holds no lock
Inside(a, rel) == pend[a] # NoPend /\ pend[a].rel = rel /\ pc[a] # "checked"

\* the sessions whose transaction wrote rows of the table: they hold
\* RowExclusiveLock on it until the transaction ends
Writers(rel) ==
    IF rel # "orders" THEN {}
    ELSE UNION {heap[r].ins \cup heap[r].del : r \in {x \in Rows : heap[x] # NoTuple}}

CanOpen(s, rel) == lock[rel] \subseteq {s}

CanLockExclusive(s, rel) ==
    /\ lock[rel] \subseteq {s}
    /\ \A a \in Sessions \ {s} : ~Inside(a, rel)
    /\ Writers(rel) \subseteq {s}

(***************************************************************************)
(* Initial state: an empty pg_implicit_columns, no transaction open.        *)
(***************************************************************************)
Init ==
    /\ cat = [t \in Relations |-> [i \in Slots |-> NoTuple]]
    /\ natts \in {[t \in Relations |-> IF t = "orders" THEN n ELSE MaxAtts] :
                    n \in 0..MaxAtts}
    /\ pc = [s \in Sessions |-> "idle"]
    /\ pend = [s \in Sessions |-> NoPend]
    /\ lock = [t \in Relations |-> {}]
    /\ last = NoCall
    /\ heap = [r \in Rows |-> NoTuple]
    /\ clock = 0
    /\ implicit_error_context_stack = [s \in Sessions |-> EmptyStack]

(***************************************************************************)
(* Transactions of the host engine.                                         *)
(***************************************************************************)
Begin(s) ==
    /\ pc[s] = "idle"
    /\ pc' = [pc EXCEPT ![s] = "active"]
    /\ UNCHANGED <<cat, natts, pend, lock, last, heap, clock, implicit_error_context_stack>>

\* the transaction of s has written pg_implicit_columns
HasWritten(s) ==
    \E t \in Relations : \E i \in Used(t) : s \in cat[t][i].ins \cup cat[t][i].del

\* the table whose rows the transaction of s has written
WrittenTable(s) == IF s \in Writers("orders") THEN "orders" ELSE InvalidOid

Commit(s) ==
    /\ pc[s] = "active"
    /\ cat' = CommitCat(cat, s)
    /\ pc' = [pc EXCEPT ![s] = "idle"]
    /\ pend' = Wake(pend, s, CommitCat(cat, s))
    /\ lock' = Release(lock, s)
    /\ last' = Call(s, "commit", WrittenTable(s), "ok", "none", HasWritten(s))
    /\ heap' = CommitHeap(heap, s)
    /\ UNCHANGED <<natts, clock, implicit_error_context_stack>>

Rollback(s) ==
    /\ pc[s] = "active"
    /\ cat' = AbortCat(cat, s)
    /\ pc' = [pc EXCEPT ![s] = "idle"]
    /\ pend' = Wake(pend, s, AbortCat(cat, s))
    /\ lock' = Release(lock, s)
    /\ last' = Call(s, "rollback", WrittenTable(s), "ok", "none", HasWritten(s))
    /\ heap' = AbortHeap(heap, s)
    /\ UNCHANGED <<natts, clock, implicit_error_context_stack>>

(***************************************************************************)
(* The entry points.                                                        *)
(***************************************************************************)
\* variant: an invalid handle is logged and the call returns
AddImplicitTimeColumnLenient(s, rel) ==
    /\ pc[s] = "active"
    /\ IF ~RelationIsValid(rel)
       THEN Return(s, cat, Call(s, "add", rel, "warning", "invalid_relation", FALSE))
       ELSE /\ CanOpen(s, rel)
            /\ AddBody(s, "add", rel)

AddImplicitTimeColumn(s, rel) ==
    /\ pc[s] = "active"
    /\ IF ~RelationIsValid(rel)
       THEN Raise(s, Call(s, "add", rel, "error", "invalid_relation", FALSE))
       ELSE /\ CanOpen(s, rel)
            /\ AddBody(s, "add", rel)

RemoveImplicitTimeColumn(s, rel) ==
    /\ pc[s] = "active"
    /\ IF ~RelationIsValid(rel)
       THEN Raise(s, Call(s, "remove", rel, "error", "invalid_relation", FALSE))
       ELSE /\ CanOpen(s, rel)
            /\ RemoveBody(s, "remove", rel)

MigrateExistingTable(s, oid, add_implicit_time) ==
    /\ pc[s] = "active"
    /\ IF ~check_backward_compatibility(oid)
       THEN Raise(s, Call(s, IF add_implicit_time THEN "migrate_add"
                                ELSE "migrate_remove",
                          oid, "error", "incompatible", FALSE))
       ELSE /\ CanLockExclusive(s, oid)
            /\ IF add_implicit_time
               THEN IF ~table_has_implicit_time(s, oid)
                    THEN AddBody(s, "migrate_add", oid)
                    ELSE Return(s, cat,
                                Call(s, "migrate_add", oid, "warning", "none", FALSE))
               ELSE IF table_has_implicit_time(s, oid)
                    THEN RemoveBody(s, "migrate_remove", oid)
                    ELSE Return(s, cat,
                                Call(s, "migrate_remove", oid, "warning", "none", FALSE))

(***************************************************************************)
(* migrate_existing_table in its two steps (pg_implicit_compat.c:171-179):   *)
(* check_backward_compatibility runs first, without a lock on the table;    *)
(* table_open(table_oid, AccessExclusiveLock) comes after it and waits      *)
(* until the lock is free.  MigrateExistingTable above is the call that     *)
(* finds the lock free at once.  GuardInputs is what the verdict was        *)
(* computed from: the relation's kind and persistence and its columns.      *)
(***************************************************************************)
GuardInputs(oid) ==
    [relkind |-> relkind(oid), relpersistence |-> relpersistence(oid),
     relnatts |-> natts[oid], time_column |-> UserTimeColumn(oid)]

MigrateCheck(s, oid, add_implicit_time) ==
    /\ pc[s] = "active"
    /\ check_backward_compatibility(oid)
    /\ pc' = [pc EXCEPT ![s] = "checked"]
    /\ pend' = [pend EXCEPT ![s] =
                   [op |-> IF add_implicit_time THEN "migrate_add" ELSE "migrate_remove",
                    rel |-> oid, attnum |-> InvalidAttrNumber, tid |-> {}, on |-> {},
                    gone |-> FALSE, inputs |-> GuardInputs(oid)]]
    /\ last' = Call(s, "check", oid, "compatible", CompatibilityWarning(oid), FALSE)
    /\ UNCHANGED <<cat, natts, lock, heap, clock, implicit_error_context_stack>>

MigrateOpen(s) ==
    /\ pc[s] = "checked"
    /\ CanLockExclusive(s, pend[s].rel)
    /\ IF pend[s].op = "migrate_add"
       THEN IF ~table_has_implicit_time(s, pend[s].rel)
            THEN AddBody(s, "migrate_add", pend[s].rel)
            ELSE Return(s, cat,
                        Call(s, "migrate_add", pend[s].rel, "warning", "none", FALSE))
       ELSE IF table_has_implicit_time(s, pend[s].rel)
            THEN RemoveBody(s, "migrate_remove", pend[s].rel)
            ELSE Return(s, cat,
                        Call(s, "migrate_remove", pend[s].rel, "warning", "none", FALSE))

\* a caller asks for the compatibility verdict of a table: res holds the
\* verdict, err the warning logged with it; nothing is raised
CheckBackwardCompatibility(s, oid) ==
    /\ pc[s] = "active"
    /\ last' = Call(s, "check", oid,
                    IF check_backward_compatibility(oid) THEN "compatible"
                    ELSE "incompatible",
                    CompatibilityWarning(oid), FALSE)
    /\ UNCHANGED <<cat, natts, pc, pend, lock, heap, clock, implicit_error_context_stack>>

\* a call of validate_operation_compatibility; err tells whether
\* ensure_legacy_behavior logged the warning of the name conflict
ValidateOperationCompatibility(s, oid, operation) ==
    /\ pc[s] = "active"
    /\ last' = Call(s, "validate", oid,
                    IF validate_operation_compatibility(s, oid, operation)
                    THEN "true" ELSE "false",
                    IF operation # NullOperation /\ ensure_legacy_behavior(s, oid)
                    THEN "warning_name_conflict" ELSE "none",
                    FALSE)
    /\ UNCHANGED <<cat, natts, pc, pend, lock, heap, clock, implicit_error_context_stack>>

\* a blocked call goes on once the transactions it waited for have ended
Resume(s) ==
    /\ pc[s] \in {"insert", "delete"}
    /\ pend[s].on = {}
    /\ IF pc[s] = "insert"
       THEN InsertStep(s, pend[s].op, pend[s].rel, pend[s].attnum)
       ELSE IF pend[s].gone
       THEN Raise(s, Call(s, pend[s].op, pend[s].rel, "error",
                          "concurrently_deleted", FALSE))
       ELSE DeleteStep(s, pend[s].op, pend[s].rel)

\* the deadlock detector aborts a waiter whose wait can never end
RECURSIVE WaitsFor(_, _)
WaitsFor(S, n) ==
    IF n = 0 THEN S
    ELSE WaitsFor(S \cup UNION {pend[a].on : a \in {b \in S : pend[b] # NoPend}}, n - 1)

DeadlockAbort(s) ==
    /\ pc[s] \in {"insert", "delete"}
    /\ s \in WaitsFor(pend[s].on, NSessions)
    /\ Raise(s, Call(s, pend[s].op, pend[s].rel, "error", "deadlock", FALSE))

\* ALTER TABLE ... ADD COLUMN of the host engine, committed: it takes
\* AccessExclusiveLock on the table
AlterTableAddColumn(t) ==
    /\ t = "orders"
    /\ natts[t] < MaxAtts
    /\ lock[t] = {}
    /\ \A a \in Sessions : ~Inside(a, t)
    /\ Writers(t) = {}
    /\ natts' = [natts EXCEPT ![t] = @ + 1]
    /\ UNCHANGED <<cat, pc, pend, lock, last, heap, clock, implicit_error_context_stack>>

(***************************************************************************)
(* The write path.  get_current_timestamp (pg_implicit_columns.c:178-197)   *)
(* reads the wall clock, converts timestamptz to timestamp in the session's *)
(* time zone and cuts the microseconds off with C's integer division.       *)
(***************************************************************************)
\* C's integer division truncates toward zero
CDiv(a, b) == IF a >= 0 THEN a \div b ELSE -((-a) \div b)

\* the session's TimeZone setting as an offset from UTC, in microseconds:
\* session 1 runs in UTC, the others half an hour east of it
SessionTimeZone(s) == IF s = 1 THEN 0 ELSE 1800 * USECS_PER_SEC

timestamptz_timestamp(s, now_tz) == now_tz + SessionTimeZone(s)

get_current_timestamp(s) ==
    CDiv(timestamptz_timestamp(s, clock), USECS_PER_SEC) * USECS_PER_SEC

\* the row a write forms: the declared values, and the implicit value
\* appended when the table has the implicit time column; `at` notes the
\* wall-clock instant of the write
heap_form_tuple_with_implicit(s, t) ==
    [itime |-> IF table_has_implicit_time(s, t) THEN {get_current_timestamp(s)}
               ELSE {},
     at |-> clock, ins |-> {s}, del |-> {}]

\* variant: an update that keeps the implicit value of the old row version
heap_update_carrying_over(s, t, old, supplied) ==
    [itime |-> old.itime, at |-> clock, ins |-> {s}, del |-> {}]

\* an update forms the new row version with the implicit value recomputed,
\* whatever the old version held and whatever the statement supplied
heap_update_implicit_time(s, t, old, supplied) ==
    heap_form_tuple_with_implicit(s, t)

\* what an UPDATE statement can supply for the implicit slot: nothing, or
\* a time of its own
SuppliedTimes == {{}, {7 * USECS_PER_SEC}}

VisibleRows(s) ==
    {r \in Rows : heap[r] # NoTuple /\ heap[r].ins \subseteq {s} /\ s \notin heap[r].del}

FreeRows == {r \in Rows : heap[r] = NoTuple}

InsertRow(s) ==
    /\ pc[s] = "active"
    /\ CanOpen(s, "orders")
    /\ FreeRows # {}
    /\ LET r == CHOOSE x \in FreeRows : \A y \in FreeRows : x <= y
       IN heap' = [heap EXCEPT ![r] = heap_form_tuple_with_implicit(s, "orders")]
    /\ last' = Call(s, "insert", "orders", "ok", "none", FALSE)
    /\ UNCHANGED <<cat, natts, pc, pend, lock, clock, implicit_error_context_stack>>

UpdateRow(s, r, supplied) ==
    /\ pc[s] = "active"
    /\ CanOpen(s, "orders")
    /\ r \in VisibleRows(s)
    /\ heap[r].del = {}
    /\ LET new == heap_update_implicit_time(s, "orders", heap[r], supplied) IN
       /\ IF s \in heap[r].ins
          THEN heap' = [heap EXCEPT ![r] = new]
          ELSE /\ FreeRows # {}
               /\ LET n == CHOOSE x \in FreeRows : \A y \in FreeRows : x <= y
                  IN heap' = [heap EXCEPT ![r].del = {s}, ![n] = new]
       /\ last' = Call(s, "update", "orders", "ok", "none", FALSE)
    /\ UNCHANGED <<cat, natts, pc, pend, lock, clock, implicit_error_context_stack>>

Tick ==
    /\ clock < MaxTicks * TickUsecs
    /\ clock' = clock + TickUsecs
    /\ UNCHANGED <<cat, natts, pc, pend, lock, last, heap, implicit_error_context_stack>>

(***************************************************************************)
(* ExecScanWithImplicitColumns (execScan.c:365-421).  ExecScan returns an   *)
(* empty slot or a row in the shape of the relation's tuple descriptor,     *)
(* attributes 1 .. relnatts; the hook looks the implicit attribute up,      *)
(* reads it from the slot and returns the slot as it got it.  Reading an    *)
(* attribute number beyond the slot's descriptor is left to the host        *)
(* engine: it yields a null or raises "invalid attribute number".           *)
(***************************************************************************)
SlotShape(t) == 1..natts[t]

ScanCall(s, rel, res, err, attnum, shape) ==
    [Call(s, "scan", rel, res, err, FALSE) EXCEPT !.attnum = attnum, !.shape = shape]

\* the call record of a scan that made n catalog lookups on its way
Looked(n, call) == [call EXCEPT !.lookups = n]

ScanReturn(s, call) ==
    /\ last' = call
    /\ UNCHANGED <<cat, natts, pc, pend, lock, heap, clock, implicit_error_context_stack>>

ExecScanWithImplicitColumns(s, rel, slot) ==
    /\ pc[s] = "active"
    /\ slot \subseteq VisibleRows(s)
    /\ Cardinality(slot) <= 1
    /\ rel # NullRelation => CanOpen(s, rel)
    /\ IF slot = {}
       THEN ScanReturn(s, ScanCall(s, rel, "empty", "none", InvalidAttrNumber, {}))
       ELSE IF rel = NullRelation
       THEN ScanReturn(s, ScanCall(s, rel, "row", "none", InvalidAttrNumber,
                                   SlotShape("orders")))
       ELSE IF ~table_has_implicit_time(s, rel)
       THEN ScanReturn(s, Looked(1, ScanCall(s, rel, "row", "none", InvalidAttrNumber,
                                             SlotShape(rel))))
       ELSE LET time_attnum == get_implicit_time_attnum(s, rel) IN
            IF ~AttributeNumberIsValid(time_attnum)
            THEN ScanReturn(s, Looked(2, ScanCall(s, rel, "row", "none", time_attnum,
                                                  SlotShape(rel))))
            ELSE IF time_attnum \in SlotShape(rel)
            THEN ScanReturn(s, Looked(2, ScanCall(s, rel, "row", "none", time_attnum,
                                                  SlotShape(rel))))
            ELSE \/ ScanReturn(s, Looked(2, ScanCall(s, rel, "row", "none", time_attnum,
                                                     SlotShape(rel))))
                 \/ Raise(s, Looked(2, ScanCall(s, rel, "error", "invalid_attribute_number",
                                                time_attnum, {})))

(***************************************************************************)
(* The same hook in two steps.  Its two catalog lookups are two separate    *)
(* index scans, each under a fresh catalog snapshot, and the scan holds     *)
(* only AccessShareLock on its table, which remove_implicit_time_column     *)
(* (called directly) does not conflict with: a descriptor can be deleted    *)
(* and committed between table_has_implicit_time (execScan.c:391) and       *)
(* get_implicit_time_attnum (execScan.c:398).  ScanBegin runs the hook up   *)
(* to and including the first lookup, ScanFinish from the second lookup on. *)
(***************************************************************************)
ScanResume(s, call) ==
    /\ last' = call
    /\ pc' = [pc EXCEPT ![s] = "active"]
    /\ pend' = [pend EXCEPT ![s] = NoPend]
    /\ UNCHANGED <<cat, natts, lock, heap, clock, implicit_error_context_stack>>

ScanBegin(s, rel, slot) ==
    /\ pc[s] = "active"
    /\ slot \subseteq VisibleRows(s)
    /\ Cardinality(slot) <= 1
    /\ rel # NullRelation => CanOpen(s, rel)
    /\ IF slot = {}
       THEN ScanReturn(s, ScanCall(s, rel, "empty", "none", InvalidAttrNumber, {}))
       ELSE IF rel = NullRelation
       THEN ScanReturn(s, ScanCall(s, rel, "row", "none", InvalidAttrNumber,
                                   SlotShape("orders")))
       ELSE IF ~table_has_implicit_time(s, rel)
       THEN ScanReturn(s, Looked(1, ScanCall(s, rel, "row", "none", InvalidAttrNumber,
                                             SlotShape(rel))))
       ELSE /\ pc' = [pc EXCEPT ![s] = "scanning"]
            /\ pend' = [pend EXCEPT ![s] = [op |-> "scan", rel |-> rel,
                                            attnum |-> InvalidAttrNumber, tid |-> {},
                                            on |-> {}, gone |-> FALSE]]
            /\ last' = Looked(1, ScanCall(s, rel, "lookup", "none", InvalidAttrNumber,
                                          SlotShape(rel)))
            /\ UNCHANGED <<cat, natts, lock, heap, clock, implicit_error_context_stack>>

\* variant: slot_getattr is called whatever number the lookup returned
ScanFinishUnguarded(s) ==
    /\ pc[s] = "scanning"
    /\ LET rel == pend[s].rel
           time_attnum == get_implicit_time_attnum(s, rel) IN
       IF time_attnum \in SlotShape(rel)
       THEN ScanResume(s, Looked(2, ScanCall(s, rel, "row", "none", time_attnum,
                                             SlotShape(rel))))
       ELSE \/ ScanResume(s, Looked(2, ScanCall(s, rel, "row", "none", time_attnum,
                                                SlotShape(rel))))
            \/ Raise(s, Looked(2, ScanCall(s, rel, "error", "invalid_attribute_number",
                                           time_attnum, {})))

ScanFinish(s) ==
    /\ pc[s] = "scanning"
    /\ LET rel == pend[s].rel
           time_attnum == get_implicit_time_attnum(s, rel) IN
       IF ~AttributeNumberIsValid(time_attnum)
       THEN ScanResume(s, Looked(2, ScanCall(s, rel, "row", "none", time_attnum,
                                             SlotShape(rel))))
       ELSE IF time_attnum \in SlotShape(rel)
       THEN ScanResume(s, Looked(2, ScanCall(s, rel, "row", "none", time_attnum,
                                             SlotShape(rel))))
       ELSE \/ ScanResume(s, Looked(2, ScanCall(s, rel, "row", "none", time_attnum,
                                                SlotShape(rel))))
            \/ Raise(s, Looked(2, ScanCall(s, rel, "error", "invalid_attribute_number",
                                           time_attnum, {})))

(***************************************************************************)
(* pg_implicit_columns is a catalog table like any other: a superuser can   *)
(* write its rows with SQL, and ic_attnum is an int16 without a constraint  *)
(* (pg_implicit_columns.h:31-38).  CatalogDirectInsert is such a write of a *)
(* row whose attribute number is not a column position.                     *)
(***************************************************************************)
BadAttnums == {InvalidAttrNumber, -1}

CatalogDirectInsert(s, rel, attnum) ==
    /\ pc[s] = "active"
    /\ attnum \in BadAttnums
    /\ UniqueCheck(s, rel) = "ok"
    /\ FreeSlots(rel) # {}
    /\ LET i == CHOOSE x \in FreeSlots(rel) : \A y \in FreeSlots(rel) : x <= y
       IN cat' = [cat EXCEPT ![rel][i] = NewTuple(s, rel, attnum)]
    /\ last' = Call(s, "direct_insert", rel, "ok", "none", FALSE)
    /\ UNCHANGED <<natts, pc, pend, lock, heap, clock, implicit_error_context_stack>>

(***************************************************************************)
(* Calls of the catalog lookups from a session (pg_implicit_columns.c:       *)
(* 62-169, 366-428).  They read pg_implicit_columns under AccessShareLock   *)
(* and take no lock on the table.                                           *)
(***************************************************************************)
LookupReturn(s, call) ==
    /\ pc[s] = "active"
    /\ last' = call
    /\ UNCHANGED <<cat, natts, pc, pend, lock, heap, clock, implicit_error_context_stack>>

TableHasImplicitTime(s, oid) ==
    LookupReturn(s, Call(s, "has_time", oid,
                         IF table_has_implicit_time(s, oid) THEN "true" ELSE "false",
                         "none", FALSE))

GetImplicitTimeAttnum(s, oid) ==
    LookupReturn(s, [Call(s, "attnum", oid, "ok", "none", FALSE)
                        EXCEPT !.attnum = get_implicit_time_attnum(s, oid)])

IsImplicitColumn(s, oid, column_name) ==
    LookupReturn(s, Call(s, "is_implicit", oid,
                         IF is_implicit_column(s, oid, column_name)
                         THEN "true" ELSE "false",
                         "none", FALSE))

GetTableImplicitInfo(s, oid) ==
    LookupReturn(s, [Call(s, "info", oid, "ok", "none", FALSE)
                        EXCEPT !.info = get_table_implicit_info(s, oid)])

(***************************************************************************)
(* Properties.                                                              *)
(***************************************************************************)
\* the snapshots a descriptor lookup can run under: the committed catalog
\* and what each session sees inside its transaction
SnapshotViews(t) == {Committed(t)} \cup {Visible(s, t) : s \in Sessions}

\* C1: under every interleaving of add, remove and migrate calls of the
\* sessions, no snapshot of pg_implicit_columns holds two descriptors with
\* the same (ic_relid, ic_attname).
C1_UniqueDescriptor ==
    \A t \in Relations : \A view \in SnapshotViews(t) : \A i, j \in view :
        cat[t][i].ic_attname = cat[t][j].ic_attname => i = j

\* two adders raced: one waits at the unique index for the other's
\* uncommitted descriptor
C1_RacingAdders ==
    \E s \in Sessions : \E i \in Used("orders") :
        /\ pc[s] = "insert"
        /\ cat["orders"][i].ins # {}
        /\ s \notin cat["orders"][i].ins

\* C2: add_implicit_time_column on a table whose descriptor the caller sees
\* returns normally, writes nothing and invalidates nothing: the table still
\* has exactly one descriptor.
C2_AddIdempotent ==
    [][\A s \in Sessions :
          (AddImplicitTimeColumn(s, "orders") /\ TimeTuples(s, "orders") # {}) =>
              /\ cat' = cat
              /\ natts' = natts
              /\ pc'[s] = "active"
              /\ last'.res = "noop"
              /\ last'.err = "none"
              /\ ~last'.inval
              /\ Cardinality(TimeTuples(s, "orders")) = 1]_vars

\* the second add of a transaction that added the descriptor itself
C2_SecondAddReturned ==
    /\ last.op = "add"
    /\ last.res = "noop"
    /\ \E s \in last.sess :
          /\ pc[s] = "active"
          /\ \E i \in TimeTuples(s, "orders") : cat["orders"][i].ins = {s}
          /\ Cardinality(TimeTuples(s, "orders")) = 1

\* C3: when remove_implicit_time_column returns, its caller sees no
\* descriptor of the table; called on a table without a descriptor it
\* returns with a warning, never an error, and leaves the catalog as it is.
C3_RemoveThenAbsent ==
    [][\A s \in Sessions :
          /\ (RemoveImplicitTimeColumn(s, "orders") /\ TimeTuples(s, "orders") = {}) =>
                /\ cat' = cat
                /\ pc'[s] = "active"
                /\ last'.res = "warning"
                /\ last'.err = "none"
          /\ ( /\ \/ RemoveImplicitTimeColumn(s, "orders")
                  \/ Resume(s) /\ pend[s].op = "remove"
               /\ pc'[s] = "active" ) =>
                {i \in Slots : VisibleIn(cat', s, "orders", i)} = {}]_vars

\* the second remove of a transaction that deleted the committed descriptor
C3_SecondRemoveWarned ==
    /\ last.op = "remove"
    /\ last.res = "warning"
    /\ \E s \in last.sess :
          /\ pc[s] = "active"
          /\ \E i \in Used("orders") : cat["orders"][i].del = {s}
          /\ TimeTuples(s, "orders") = {}

\* C4: of two sessions that add the implicit column to the same table
\* concurrently, none ends with an error: the later one finds the column
\* and returns.
C4_NoAdderFails ==
    ~(last.op \in {"add", "migrate_add"} /\ last.err = "unique_violation")

\* C5: every descriptor written to the catalog carries the number of
\* declared columns at that moment plus one (1 for a table without
\* columns), also when the column is added again after a drop.
C5_AttnumIsCountPlusOne ==
    [][\A t \in Relations : \A i \in Slots :
          (cat[t][i] = NoTuple /\ cat'[t][i] # NoTuple) =>
              /\ cat'[t][i].ic_attnum = natts[t] + 1
              /\ natts' = natts]_vars

\* a transaction dropped the descriptor and added it again after the table
\* got another column: the new descriptor carries the new count plus one
C5_ReAddedAfterColumnChange ==
    /\ last.op \in {"add", "migrate_add"}
    /\ last.res = "ok"
    /\ \E s \in last.sess : \E i, j \in Used("orders") :
          /\ cat["orders"][i].del = {s}
          /\ cat["orders"][j].ins = {s}
          /\ cat["orders"][j].ic_attnum = natts["orders"] + 1
          /\ cat["orders"][j].ic_attnum > cat["orders"][i].ic_attnum

\* C6: the attribute number of every descriptor is greater than the number
\* of every declared column of its table, also after columns were added
\* while the descriptor exists.
C6_AboveDeclaredColumns ==
    \A t \in Relations : \A i \in Used(t) : cat[t][i].ic_attnum > natts[t]

\* what is committed: the versions no transaction in progress inserted,
\* without the delete marks of transactions in progress
StripCat(c) ==
    [t \in Relations |-> [i \in Slots |->
        IF c[t][i] = NoTuple THEN NoTuple
        ELSE IF c[t][i].ins # {} THEN NoTuple
        ELSE [c[t][i] EXCEPT !.del = {}]]]

StripHeap(h) ==
    [r \in DOMAIN h |->
        IF h[r] = NoTuple THEN NoTuple
        ELSE IF h[r].ins # {} THEN NoTuple
        ELSE [h[r] EXCEPT !.del = {}]]

\* C7: a transaction that is rolled back leaves nothing behind: the
\* committed descriptors and the committed rows change only when a
\* transaction commits, and once a transaction has ended no descriptor and
\* no row version of it remains, so a lookup after the rollback of an add
\* finds what was committed before.
C7_RollbackLeavesNothing ==
    [][/\ (StripCat(cat') # StripCat(cat) \/ StripHeap(heap') # StripHeap(heap)) =>
              last'.op = "commit"
       /\ \A s \in Sessions : (pc[s] # "idle" /\ pc'[s] = "idle") =>
              /\ \A t \in Relations : \A i \in Slots :
                    cat'[t][i] # NoTuple => s \notin cat'[t][i].ins \cup cat'[t][i].del
              /\ \A r \in Rows :
                    heap'[r] # NoTuple => s \notin heap'[r].ins \cup heap'[r].del
              /\ last'.op # "commit" =>
                    \A t \in Relations :
                        {i \in Slots : VisibleIn(cat', s, t, i)} =
                            {i \in Slots : VisibleIn(cat, s, t, i) /\ cat[t][i].ins = {}}
                            \cup {i \in Committed(t) : s \in cat[t][i].del}]_vars

\* a transaction that added the column and wrote rows was rolled back:
\* the table has no implicit column and no rows
C7_RolledBackAddAndRows ==
    /\ last.op = "rollback"
    /\ last.inval
    /\ last.rel = "orders"
    /\ \A s \in Sessions : ~table_has_implicit_time(s, "orders")
    /\ \A r \in Rows : heap[r] = NoTuple

\* C8: a row the scan returns never holds the attribute at the implicit
\* attribute number: its shape is the declared columns only.
C8_ImplicitAttnumNotInRow ==
    (last.op = "scan" /\ last.res = "row" /\ AttributeNumberIsValid(last.attnum)) =>
        last.attnum \notin last.shape

\* C9: every descriptor belongs to an ordinary table: a view never gets one.
C9_OnlyOrdinaryTables ==
    \A t \in Relations : Used(t) # {} => relkind(t) = RELKIND_RELATION

\* C10: no descriptor belongs to a system catalog table.
C10_NoSystemTables ==
    \A t \in Relations : IsSystemClass(t) => Used(t) = {}

\* C11: for an ordinary user table the compatibility verdict is
\* "incompatible", given with a warning and without an error, exactly when
\* the table has a declared, non-dropped column named "time" whose type is
\* not the implicit column's storage type.
C11_NameConflictIsIncompatible ==
    (last.op = "check" /\ last.rel \in Relations
        /\ relkind(last.rel) = RELKIND_RELATION /\ ~IsSystemClass(last.rel)) =>
        LET att == UserTimeColumn(last.rel)
            conflict == att.found /\ ~att.attisdropped /\ att.atttypid # TIMESTAMPOID
        IN /\ last.res = (IF conflict THEN "incompatible" ELSE "compatible")
           /\ conflict => last.err = "warning_name_conflict"
           /\ \A s \in last.sess : pc[s] = "active"

\* C12: migrate_existing_table on a table id that fails the compatibility
\* precondition ends with an error that aborts the transaction, and the
\* call itself writes nothing: no descriptor version appears, none gets a
\* delete mark and no invalidation is signalled; the only versions that
\* change are the uncommitted writes of the aborted transaction, which are
\* undone.
C12_FailedPreconditionChangesNothing ==
    [][\A s \in last'.sess :
          ( /\ last'.op \in {"migrate_add", "migrate_remove"}
            /\ ~check_backward_compatibility(last'.rel)
            /\ MigrateExistingTable(s, last'.rel, last'.op = "migrate_add") ) =>
              /\ pc'[s] = "idle"
              /\ last'.res = "error"
              /\ last'.err = "incompatible"
              /\ ~last'.inval
              /\ \A t \in Relations : \A i \in Slots :
                    \/ cat'[t][i] = cat[t][i]
                    \/ /\ cat[t][i] # NoTuple
                       /\ \/ s \in cat[t][i].ins /\ cat'[t][i] = NoTuple
                          \/ /\ cat[t][i].ins = {}
                             /\ s \in cat[t][i].del
                             /\ cat'[t][i] = [cat[t][i] EXCEPT !.del = {}]]_vars

\* a migrate on an Oid that names no relation failed while the catalog held
\* a committed descriptor
C12_FailedOnUnknownTable ==
    /\ last.op \in {"migrate_add", "migrate_remove"}
    /\ last.rel = "nosuch"
    /\ last.err = "incompatible"
    /\ \A s \in last.sess : pc[s] = "idle"
    /\ Committed("orders") # {}

\* C13: migrate_existing_table(t, true) on a table whose descriptor the
\* caller sees, and migrate_existing_table(t, false) on a table without
\* one, return success with a warning and leave the catalog unchanged.
C13_MigrateIdempotent ==
    [][\A s \in last'.sess : \A add \in BOOLEAN :
          ( /\ last'.rel = "orders"
            /\ add <=> TimeTuples(s, "orders") # {}
            /\ MigrateExistingTable(s, "orders", add) ) =>
              /\ cat' = cat
              /\ pc'[s] = "active"
              /\ last'.res = "warning"
              /\ last'.err = "none"
              /\ ~last'.inval]_vars

\* the second migrate_existing_table(t, true) of a transaction
C13_SecondMigrateWarned ==
    /\ last.op = "migrate_add"
    /\ last.res = "warning"
    /\ \E s \in last.sess :
          /\ pc[s] = "active"
          /\ \E i \in TimeTuples(s, "orders") : cat["orders"][i].ins = {s}
          /\ Cardinality(TimeTuples(s, "orders")) = 1

\* C14: a call that returns normally and has inserted or deleted a
\* descriptor has signalled the relation-cache invalidation of that table.
C14_ChangeSignalsInvalidation ==
    [][(cat' # cat /\ last'.op \notin {"commit", "rollback"} /\ last'.res # "error") =>
          /\ last'.res = "ok"
          /\ last'.inval
          /\ last'.rel \in Relations
          /\ \A t \in Relations \ {last'.rel} : cat'[t] = cat[t]]_vars

\* a remove deleted a committed descriptor and signalled the invalidation
C14_RemoveSignalled ==
    /\ last.op \in {"remove", "migrate_remove"}
    /\ last.res = "ok"
    /\ last.inval
    /\ \E s \in last.sess : \E i \in Used("orders") : cat["orders"][i].del = {s}

\* C15: a transaction that changed the descriptors of a table through
\* migrate_existing_table holds the exclusive lock on the table until it
\* ends, when the invalidation takes effect.
C15_LockHeldUntilEffect ==
    \A s \in Sessions :
        ( /\ last.sess = {s}
          /\ last.op \in {"migrate_add", "migrate_remove"}
          /\ last.res = "ok"
          /\ pc[s] = "active" ) => lock[last.rel] = {s}

\* the rows that hold an implicit value
Stamped == {r \in Rows : heap[r] # NoTuple /\ heap[r].itime # {}}

\* the heap slot an update of row r by session s writes the new version to
UpdatedSlot(s, r) ==
    IF s \in heap[r].ins THEN r
    ELSE CHOOSE x \in FreeRows : \A y \in FreeRows : x <= y

\* C16: the implicit values written by the inserts and updates of one
\* transaction are equal, however much time passes between the writes.
C16_OneTransactionOneTime ==
    \A s \in Sessions : \A r1, r2 \in Stamped :
        (heap[r1].ins = {s} /\ heap[r2].ins = {s}) => heap[r1].itime = heap[r2].itime

\* C17: an update made at least one second after the row version it
\* replaces was written stores an implicit value strictly greater than
\* the one that version holds.
C17_UpdateIsLater ==
    [][\A s \in last'.sess : \A r \in Stamped :
          ( /\ last'.op = "update"
            /\ clock >= heap[r].at + USECS_PER_SEC
            /\ \E supplied \in SuppliedTimes : UpdateRow(s, r, supplied) ) =>
              \A old \in heap[r].itime : \A new \in heap'[UpdatedSlot(s, r)].itime :
                  new > old]_vars

\* C18: a stored implicit value is a whole number of seconds, not after
\* the instant of its write and less than one second before it.
C18_TruncatedNotRounded ==
    \A s \in Sessions : \A r \in Stamped :
        heap[r].ins = {s} =>
            \A v \in heap[r].itime :
                /\ v % USECS_PER_SEC = 0
                /\ v <= timestamptz_timestamp(s, heap[r].at)
                /\ timestamptz_timestamp(s, heap[r].at) < v + USECS_PER_SEC

\* C19: two implicit values written at the same instant are equal, whoever
\* wrote them.
C19_SameInstantSameValue ==
    \A r1, r2 \in Stamped :
        heap[r1].at = heap[r2].at => heap[r1].itime = heap[r2].itime

\* C20: an update of a row of a table with the implicit time column stores
\* the current timestamp as the implicit value of the new row version,
\* whatever the old version held and whatever the statement supplied.
C20_UpdateRecomputes ==
    [][\A s \in last'.sess : \A r \in Rows : \A supplied \in SuppliedTimes :
          ( /\ last'.op = "update"
            /\ TimeTuples(s, "orders") # {}
            /\ UpdateRow(s, r, supplied) ) =>
              /\ heap'[UpdatedSlot(s, r)].itime = {get_current_timestamp(s)}
              /\ heap'[UpdatedSlot(s, r)].itime # supplied]_vars

\* an update replaced a committed row version by one with a later implicit
\* value
C20_UpdatedToLaterTime ==
    /\ last.op = "update"
    /\ \E s \in last.sess : \E r, n \in Stamped :
          /\ heap[r].ins = {} /\ heap[r].del = {s}
          /\ heap[n].ins = {s}
          /\ heap[n].at = clock
          /\ \A old \in heap[r].itime : \A new \in heap[n].itime : new > old

\* C21: adding the implicit time column to a table that holds rows changes
\* the catalog only: no row is rewritten or given an implicit value; and a
\* scan of a row written before the add, whose record holds no implicit
\* value, returns the row without an error.
C21_PreExistingRowsUnaffected ==
    [][\A s \in last'.sess :
          /\ (last'.op = "migrate_add" /\ last'.res = "ok") => heap' = heap
          /\ \A r \in Rows :
                ( /\ last'.op = "scan"
                  /\ r \in VisibleRows(s)
                  /\ heap[r].itime = {}
                  /\ table_has_implicit_time(s, "orders")
                  /\ ExecScanWithImplicitColumns(s, "orders", {r}) ) =>
                      /\ last'.res = "row"
                      /\ last'.err = "none"
                      /\ heap' = heap]_vars

\* C22: every descriptor add_implicit_time_column inserted has the type
\* timestamp with time zone.
C22_TypeIsTimestampTz ==
    \A t \in Relations : \A i \in Used(t) :
        cat[t][i].ic_atttypid = TIMESTAMPTZOID

\* C23: every descriptor of the catalog has visible = false, whatever
\* operations ran: it is inserted so and nothing sets the flag.
C23_NeverVisible ==
    \A t \in Relations : \A i \in Used(t) : cat[t][i].ic_visible = FALSE

\* a committed descriptor that the introspection query of every session
\* shows as not visible, still so after a column was added to the table
C23_HiddenAfterReAdd ==
    /\ last.op = "commit"
    /\ last.inval
    /\ \A s \in Sessions : \E i \in TimeTuples(s, "orders") :
          /\ cat["orders"][i].ins = {}
          /\ cat["orders"][i].del = {}
          /\ cat["orders"][i].ic_visible = FALSE
          /\ cat["orders"][i].ic_attnum < natts["orders"] + 1

\* the descriptors of table oid a scan of session s can see, found by
\* their ic_relid field in the whole catalog
DescriptorsOf(s, oid) ==
    {d \in Relations \X Slots :
        VisibleIn(cat, s, d[1], d[2]) /\ cat[d[1]][d[2]].ic_relid = oid}

TimeDescriptorsOf(s, oid) ==
    {d \in DescriptorsOf(s, oid) :
        cat[d[1]][d[2]].ic_attname = IMPLICIT_TIME_COLUMN_NAME}

\* C24: table_has_implicit_time(t) is true exactly when the catalog holds a
\* descriptor (t, "time"); descriptors of other tables do not count; for an
\* invalid or unknown id it is false, and the call raises no error and
\* changes no state.
C24_HasTimeIffDescriptor ==
    [][\A s \in last'.sess : \A oid \in Oids :
          (last'.op = "has_time" /\ TableHasImplicitTime(s, oid)) =>
              /\ (last'.res = "true") <=> (TimeDescriptorsOf(s, oid) # {})
              /\ (~OidIsValid(oid) \/ oid \notin Relations) => last'.res = "false"
              /\ last'.err = "none"
              /\ UNCHANGED <<cat, natts, pc, pend, lock, heap, clock>>]_vars

\* the lookup said "no" for a table while its caller saw the descriptor of
\* another table
C24_OtherTableDoesNotCount ==
    /\ last.op = "has_time"
    /\ last.res = "false"
    /\ last.rel = "orders"
    /\ \E s \in last.sess : TimeDescriptorsOf(s, "logs") # {}

\* C25: get_implicit_time_attnum(t) is the attribute number stored in the
\* descriptor (t, "time") when there is one, and InvalidAttrNumber when
\* there is none or the id is invalid; never another number.
C25_StoredNumberOrInvalid ==
    [][\A s \in last'.sess : \A oid \in Oids :
          (last'.op = "attnum" /\ GetImplicitTimeAttnum(s, oid)) =>
              IF TimeDescriptorsOf(s, oid) = {}
              THEN last'.attnum = InvalidAttrNumber
              ELSE \A d \in TimeDescriptorsOf(s, oid) :
                      last'.attnum = cat[d[1]][d[2]].ic_attnum]_vars

\* the lookup returned the stored number of a table whose column count has
\* changed since the descriptor was written
C25_ReturnedStoredNumber ==
    /\ last.op = "attnum"
    /\ last.rel = "orders"
    /\ AttributeNumberIsValid(last.attnum)
    /\ last.attnum # natts["orders"] + 1
    /\ \E s \in last.sess : TimeDescriptorsOf(s, "orders") # {}

\* C26: the snapshot of get_table_implicit_info(t) mirrors the catalog at
\* the call: its list holds exactly the descriptors of t, the count is the
\* length of the list, has_implicit_time tells whether a "time" descriptor
\* is among them and time_attnum is then its number; a valid table without
\* descriptors gets the empty snapshot.
C26_SnapshotMirrorsCatalog ==
    [][\A s \in last'.sess : \A oid \in Oids :
          (last'.op = "info" /\ OidIsValid(oid) /\ GetTableImplicitInfo(s, oid)) =>
              LET info == last'.info
                  cols == info.implicit_columns
              IN /\ info.valid
                 /\ Len(cols) = Cardinality(DescriptorsOf(s, oid))
                 /\ {<<cols[k].column_name, cols[k].column_type, cols[k].attnum>> :
                        k \in 1..Len(cols)}
                    = {<<cat[d[1]][d[2]].ic_attname, cat[d[1]][d[2]].ic_atttypid,
                         cat[d[1]][d[2]].ic_attnum>> : d \in DescriptorsOf(s, oid)}
                 /\ info.num_implicit_cols = Len(cols)
                 /\ info.has_implicit_time <=> (TimeDescriptorsOf(s, oid) # {})
                 /\ \A d \in TimeDescriptorsOf(s, oid) :
                       info.time_attnum = cat[d[1]][d[2]].ic_attnum
                 /\ TimeDescriptorsOf(s, oid) = {} =>
                       info.time_attnum = InvalidAttrNumber
                 /\ DescriptorsOf(s, oid) = {} =>
                       /\ ~info.has_implicit_time
                       /\ cols = <<>>
                       /\ info.num_implicit_cols = 0]_vars

\* a snapshot with the time column of a table, taken by a session that sees
\* the descriptor another transaction committed
C26_SnapshotWithTimeColumn ==
    /\ last.op = "info"
    /\ last.info.valid
    /\ last.info.has_implicit_time
    /\ last.info.num_implicit_cols = 1
    /\ AttributeNumberIsValid(last.info.time_attnum)
    /\ \E s \in last.sess : \E d \in TimeDescriptorsOf(s, last.rel) :
          cat[d[1]][d[2]].ins = {}

\* C27: validate_operation_compatibility(t, op) is permissive: for every
\* table id, with or without the implicit column, and every op of INSERT,
\* UPDATE, DELETE, SELECT it returns true, and it changes no state; it
\* returns false only when there is no operation string.
C27_AlwaysPermissive ==
    [][\A s \in last'.sess : \A op \in Operations :
          ( /\ last'.op = "validate"
            /\ ValidateOperationCompatibility(s, last'.rel, op) ) =>
              /\ op \in {"INSERT", "UPDATE", "DELETE", "SELECT"} => last'.res = "true"
              /\ last'.res = "false" => op = NullOperation
              /\ UNCHANGED <<cat, natts, pc, pend, lock, heap, clock>>]_vars

\* the check said "true" for a table on which its caller sees the implicit
\* column
C27_PermittedWithImplicitColumn ==
    /\ last.op = "validate"
    /\ last.res = "true"
    /\ \E s \in last.sess : table_has_implicit_time(s, last.rel)

\* C28: check_backward_compatibility reports "compatible" for every
\* existing relation that is not an ordinary table (a view, an index), for
\* every system catalog table and for every temporary table, and changes
\* nothing in the catalog; it reports "incompatible" only for an invalid id
\* or one that names no relation.
C28_NonOrdinaryReportedCompatible ==
    [][\A s \in last'.sess :
          (last'.op = "check" /\ CheckBackwardCompatibility(s, last'.rel)) =>
              /\ ( /\ last'.rel \in Relations
                   /\ \/ relkind(last'.rel) # RELKIND_RELATION
                      \/ IsSystemClass(last'.rel)
                      \/ relpersistence(last'.rel) = RELPERSISTENCE_TEMP ) =>
                       last'.res = "compatible"
              /\ last'.res = "incompatible" =>
                    (~OidIsValid(last'.rel) \/ last'.rel \notin Relations)
              /\ UNCHANGED <<cat, natts, pc, pend, lock, heap, clock>>]_vars

\* the verdict "compatible" was given for a temporary table while the
\* catalog held a descriptor
C28_TemporaryTableCompatible ==
    /\ last.op = "check"
    /\ last.res = "compatible"
    /\ last.rel \in Relations
    /\ is_temporary_table(last.rel)
    /\ Used("events") # {}

\* C29: every hard error of add_implicit_time_column,
\* remove_implicit_time_column and migrate_existing_table is reported with a
\* primary message, a detail and a hint.
C29_ErrorsCarryDetailAndHint ==
    ( /\ last.res = "error"
      /\ last.op \in {"add", "remove", "migrate_add", "migrate_remove"}
      /\ last.err \in {"invalid_relation", "incompatible"} ) =>
        /\ ErrorReport(last).message # NoField
        /\ ErrorReport(last).detail # NoField
        /\ ErrorReport(last).hint # NoField

\* C30: add_implicit_time_column and remove_implicit_time_column called
\* with an invalid relation handle end with an error that aborts the
\* transaction, raised before the catalog is touched: the call inserts and
\* deletes no descriptor and signals no invalidation; the only versions that
\* change are the uncommitted writes of the aborted transaction, which are
\* undone.
C30_InvalidHandleIsFatal ==
    [][\A s \in last'.sess :
          ( /\ last'.op \in {"add", "remove"}
            /\ ~RelationIsValid(last'.rel)
            /\ \/ AddImplicitTimeColumn(s, last'.rel)
               \/ RemoveImplicitTimeColumn(s, last'.rel) ) =>
              /\ pc'[s] = "idle"
              /\ last'.res = "error"
              /\ last'.err = "invalid_relation"
              /\ ~last'.inval
              /\ natts' = natts
              /\ \A t \in Relations : \A i \in Slots :
                    \/ cat'[t][i] = cat[t][i]
                    \/ /\ cat[t][i] # NoTuple
                       /\ \/ s \in cat[t][i].ins /\ cat'[t][i] = NoTuple
                          \/ /\ cat[t][i].ins = {}
                             /\ s \in cat[t][i].del
                             /\ cat'[t][i] = [cat[t][i] EXCEPT !.del = {}]]_vars

\* a call with an invalid handle failed while the catalog held a committed
\* descriptor, which is still there
C30_InvalidHandleRaised ==
    /\ last.op \in {"add", "remove"}
    /\ last.rel = NullRelation
    /\ last.res = "error"
    /\ ~last.inval
    /\ \A s \in last.sess : pc[s] = "idle"
    /\ \E i \in Committed("orders") : cat["orders"][i].del = {}

\* C31: when the descriptor a lookup reads holds an attribute number that
\* is no column position (0 or negative), the attribute-number lookup, the
\* snapshot assembly and the scan hook fail with an error; the number is
\* neither returned nor skipped.
C31_BadNumberIsInternalError ==
    [][\A s \in last'.sess :
          ( /\ last'.op \in {"attnum", "info", "scan"}
            /\ last'.rel \in Relations
            /\ \E i \in TimeTuples(s, last'.rel) : cat[last'.rel][i].ic_attnum <= 0
            /\ \/ GetImplicitTimeAttnum(s, last'.rel)
               \/ GetTableImplicitInfo(s, last'.rel)
               \/ \E r \in Rows : ExecScanWithImplicitColumns(s, last'.rel, {r}) ) =>
              last'.res = "error"]_vars

\* C32: a descriptor is never changed in place: from its insertion to its
\* deletion its table, name, attribute number, type and visible flag stay
\* what they were; the catalog changes by inserts and deletes only.
C32_NeverMutatedInPlace ==
    [][\A t \in Relations : \A i \in Slots :
          (cat[t][i] # NoTuple /\ cat'[t][i] # NoTuple /\ cat'[t][i] # cat[t][i]) =>
              /\ cat'[t][i].ic_relid = cat[t][i].ic_relid
              /\ cat'[t][i].ic_attname = cat[t][i].ic_attname
              /\ cat'[t][i].ic_attnum = cat[t][i].ic_attnum
              /\ cat'[t][i].ic_atttypid = cat[t][i].ic_atttypid
              /\ cat'[t][i].ic_visible = cat[t][i].ic_visible]_vars

\* a committed descriptor that outlived a column change of its table was
\* removed: it carries its delete mark and the fields it was inserted with
C32_RemovedAsInserted ==
    /\ last.op \in {"remove", "migrate_remove"}
    /\ last.res = "ok"
    /\ \E s \in last.sess : \E i \in Used("orders") :
          /\ cat["orders"][i].ins = {}
          /\ cat["orders"][i].del = {s}
          /\ cat["orders"][i].ic_attnum \in 1..natts["orders"]
          /\ cat["orders"][i].ic_atttypid = TIMESTAMPOID
          /\ cat["orders"][i].ic_visible = FALSE

\* C33: ExecScanWithImplicitColumns returns the slot ExecScan returned, the
\* same row in the same shape or the empty slot, for a table with and
\* without the implicit column, and changes neither the rows of the table
\* nor the catalog.
C33_ScanReturnsSlotUnchanged ==
    [][\A s \in last'.sess : \A slot \in SUBSET Rows :
          ( /\ last'.op = "scan"
            /\ ExecScanWithImplicitColumns(s, last'.rel, slot) ) =>
              /\ last'.res = (IF slot = {} THEN "empty" ELSE "row")
              /\ last'.shape = (IF slot = {} THEN {} ELSE SlotShape("orders"))
              /\ heap' = heap
              /\ cat' = cat]_vars

\* C34: the verdict that lets migrate_existing_table write is not stale:
\* when the call goes on to its catalog insert or delete, the relation
\* kind, the persistence and the columns of the table are what the check
\* saw; no other session changed them in between.
C34_VerdictNeverStale ==
    [][\A s \in Sessions :
          (pc[s] = "checked" /\ MigrateOpen(s)) =>
              GuardInputs(pend[s].rel) = pend[s].inputs]_vars

\* C35: the three lookups agree in every catalog state and under every
\* snapshot: table_has_implicit_time(t) holds exactly when
\* get_implicit_time_attnum(t) is a valid number and exactly when the
\* snapshot of get_table_implicit_info(t) has has_implicit_time, and the
\* number of the one is the time_attnum of the other.
C35_LookupsAgree ==
    \A s \in Sessions : \A oid \in Oids :
        /\ table_has_implicit_time(s, oid)
              <=> AttributeNumberIsValid(get_implicit_time_attnum(s, oid))
        /\ OidIsValid(oid) =>
              /\ get_table_implicit_info(s, oid).has_implicit_time
                    <=> table_has_implicit_time(s, oid)
              /\ get_table_implicit_info(s, oid).time_attnum
                    = get_implicit_time_attnum(s, oid)

\* a snapshot taken by a session of its own uncommitted descriptor, which
\* the other lookups of that session find too and another session does not
C35_AgreeOnOwnDescriptor ==
    /\ last.op = "info"
    /\ last.info.valid
    /\ last.info.has_implicit_time
    /\ \E s \in last.sess :
          /\ \E i \in TimeTuples(s, last.rel) : cat[last.rel][i].ins = {s}
          /\ table_has_implicit_time(s, last.rel)
          /\ get_implicit_time_attnum(s, last.rel) = last.info.time_attnum
          /\ \E a \in Sessions \ {s} : ~table_has_implicit_time(a, last.rel)

\* C36: add_implicit_time_column(t) and remove_implicit_time_column(t)
\* write the descriptor (t, "time") only: the descriptors of every other
\* table, and descriptors of t under another name, stay as they are (when
\* the call fails, the abort undoes the uncommitted writes of its
\* transaction and nothing else); and table_has_implicit_time,
\* get_implicit_time_attnum, get_table_implicit_info and is_implicit_column
\* change no catalog state.
C36_OnlyOwnDescriptorChanges ==
    [][\A s \in last'.sess :
          /\ ( /\ last'.op \in {"add", "remove"}
               /\ \/ AddImplicitTimeColumn(s, last'.rel)
                  \/ RemoveImplicitTimeColumn(s, last'.rel)
                  \/ Resume(s) ) =>
                 \A t \in Relations : \A i \in Slots :
                    \/ cat'[t][i] = cat[t][i]
                    \/ /\ t = last'.rel
                       /\ last'.res = "ok"
                       /\ \/ cat[t][i] = NoTuple
                             /\ cat'[t][i].ic_attname = IMPLICIT_TIME_COLUMN_NAME
                          \/ cat[t][i] # NoTuple
                             /\ cat[t][i].ic_attname = IMPLICIT_TIME_COLUMN_NAME
                    \/ /\ last'.res = "error"
                       /\ cat[t][i] # NoTuple
                       /\ \/ s \in cat[t][i].ins /\ cat'[t][i] = NoTuple
                          \/ /\ cat[t][i].ins = {}
                             /\ s \in cat[t][i].del
                             /\ cat'[t][i] = [cat[t][i] EXCEPT !.del = {}]
          /\ ( /\ last'.op \in {"has_time", "attnum", "info", "is_implicit"}
               /\ \/ TableHasImplicitTime(s, last'.rel)
                  \/ GetImplicitTimeAttnum(s, last'.rel)
                  \/ GetTableImplicitInfo(s, last'.rel)
                  \/ \E name \in {IMPLICIT_TIME_COLUMN_NAME, "created", NullName} :
                        IsImplicitColumn(s, last'.rel, name) ) =>
                 UNCHANGED <<cat, natts, pc, pend, lock, heap, clock>>]_vars

\* the descriptor of one table was removed while the session saw the
\* descriptor of another table, which is still there
C36_RemovedBesideAnotherTable ==
    /\ last.op = "remove"
    /\ last.res = "ok"
    /\ last.rel = "logs"
    /\ \E s \in last.sess :
          /\ TimeTuples(s, "logs") = {}
          /\ TimeTuples(s, "orders") # {}

\* C37: ExecScanWithImplicitColumns never calls slot_getattr at
\* InvalidAttrNumber.  When the descriptor its first lookup saw has been
\* removed by another session before its second lookup, the number it gets
\* is InvalidAttrNumber: it reads no attribute, raises nothing, changes
\* nothing and returns the row.  For an empty slot, or a scan without a
\* current relation, it returns in one step, having made no catalog lookup.
C37_NoReadAtInvalidNumber ==
    [][\A s \in last'.sess :
          /\ (last'.op = "scan" /\ last'.err = "invalid_attribute_number")
                => AttributeNumberIsValid(last'.attnum)
          /\ (/\ pc[s] = "scanning"
              /\ ~AttributeNumberIsValid(get_implicit_time_attnum(s, pend[s].rel))
              /\ ScanFinish(s))
                => /\ last'.res = "row"
                   /\ last'.err = "none"
                   /\ last'.attnum = InvalidAttrNumber
                   /\ last'.shape = SlotShape(pend[s].rel)
                   /\ pc'[s] = "active"
                   /\ UNCHANGED <<cat, natts, lock, heap, clock>>
          /\ \A slot \in SUBSET Rows :
                (/\ pc[s] = "active"
                 /\ last'.op = "scan"
                 /\ slot = {} \/ last'.rel = NullRelation
                 /\ ScanBegin(s, last'.rel, slot))
                  => /\ last'.lookups = 0
                     /\ last'.res = IF slot = {} THEN "empty" ELSE "row"
                     /\ last'.err = "none"
                     /\ UNCHANGED <<cat, natts, pc, pend, lock, heap, clock>>]_vars

\* a scan of "orders" made both lookups, the second one found the
\* descriptor gone, and the row was returned
C37_RowReturnedAfterRace ==
    /\ last.op = "scan"
    /\ last.rel = "orders"
    /\ last.lookups = 2
    /\ last.res = "row"
    /\ last.attnum = InvalidAttrNumber
    /\ \A s \in last.sess : pc[s] = "active" /\ TimeTuples(s, "orders") = {}

\* C38: whatever pushes and pops were made, the depth of the error context
\* stack is within 0..10 and every slot at an index >= depth is NULL; a
\* push at depth 10 and a push of NULL leave the stack as it was, a pop at
\* depth 0 too, and a push that stored its context followed by a pop gives
\* back the stack there was before the push.
C38_StackDiscipline ==
    /\ [](\A s \in Sessions :
            LET st == implicit_error_context_stack[s] IN
            /\ st.depth \in 0..10
            /\ \A i \in 0..(MAX_ERROR_CONTEXT_DEPTH - 1) :
                  i >= st.depth => st.contexts[i] = NullContext
            /\ \A context \in Contexts \ {NullContext} :
                  st.depth < 10 =>
                    LET pushed == implicit_time_error_context_push(st, context) IN
                    /\ pushed.depth = st.depth + 1
                    /\ pushed.contexts[st.depth] = context
                    /\ implicit_time_error_context_pop(pushed) = st)
    /\ [][\A s \in last'.sess :
            LET st == implicit_error_context_stack[s]
                after == implicit_error_context_stack'[s] IN
            /\ \A context \in Contexts :
                  (/\ last'.op = "context_push"
                   /\ st.depth = 10 \/ context = NullContext
                   /\ ErrorContextPush(s, context))
                    => after = st
            /\ (last'.op = "context_pop" /\ st.depth = 0 /\ ErrorContextPop(s))
                  => after = st
            /\ (/\ last.op = "context_push"
                /\ last.sess = {s}
                /\ last.err = "none"
                /\ st.depth > 0
                /\ last'.op = "context_pop"
                /\ ErrorContextPop(s))
                  => /\ after.depth = st.depth - 1
                     /\ \A i \in 0..(MAX_ERROR_CONTEXT_DEPTH - 1) :
                           after.contexts[i] = IF i < after.depth THEN st.contexts[i]
                                               ELSE NullContext]_vars

\* a push was refused at depth 10, every slot holding a context
C38_PushRefusedWhenFull ==
    /\ last.op = "context_push"
    /\ last.err = "context_stack_overflow"
    /\ \A s \in last.sess :
          /\ implicit_error_context_stack[s].depth = MAX_ERROR_CONTEXT_DEPTH
          /\ \A i \in 0..(MAX_ERROR_CONTEXT_DEPTH - 1) :
                implicit_error_context_stack[s].contexts[i] # NullContext

(***************************************************************************)
(* Specifications.                                                          *)
(*   Spec      every session works on the user table "orders": the direct   *)
(*             calls, migrate_existing_table (also with an invalid and an   *)
(*             unknown Oid) and ALTER TABLE ADD COLUMN.                      *)
(*   SpecKinds every session calls migrate_existing_table on the view and   *)
(*             on the system table.                                         *)
(*   SpecCompat every session asks for compatibility verdicts and calls     *)
(*             migrate_existing_table on a table with a column named        *)
(*             "time"; one session calls validate_operation_compatibility.  *)
(*   SpecRows  one session writes and scans rows of "orders" while the      *)
(*             implicit column is added and dropped and columns are added.  *)
(*   SpecTime  two sessions with different time zones write rows of         *)
(*             "orders" while the clock runs.                               *)
(*   SpecOneWriter  one session adds the implicit column and writes rows    *)
(*             of "orders" while the clock runs.                            *)
(*   SpecCorrupt  one session reads and scans "orders" after a descriptor   *)
(*             with an attribute number that is no column position was      *)
(*             written into the catalog by hand.                            *)
(*   SpecStale  every session calls migrate_existing_table on "orders" in   *)
(*             its two steps while columns are added to the table.          *)
(*   SpecLookup  one session calls the catalog lookups and migrates         *)
(*             "orders" while it and another session add the implicit       *)
(*             column of "logs" with add_implicit_time_column and the       *)
(*             other session drops it.                                      *)
(*   SpecScanRace  one session scans "orders", its two catalog lookups in   *)
(*             two steps, while the other session adds and drops the        *)
(*             implicit column with the direct calls.                       *)
(*   SpecStack  one backend pushes and pops error contexts.                 *)
(***************************************************************************)
Next ==
    \/ \E s \in Sessions : Begin(s)
    \/ \E s \in Sessions : Commit(s)
    \/ \E s \in Sessions : Rollback(s)
    \/ \E s \in Sessions, rel \in {"orders", NullRelation} :
          AddImplicitTimeColumn(s, rel)
    \/ \E s \in Sessions, rel \in {"orders", NullRelation} :
          RemoveImplicitTimeColumn(s, rel)
    \/ \E s \in Sessions, oid \in {"orders", "nosuch", InvalidOid}, add \in BOOLEAN :
          MigrateExistingTable(s, oid, add)
    \/ \E s \in Sessions : Resume(s)
    \/ \E t \in Relations : AlterTableAddColumn(t)

Spec == Init /\ [][Next]_vars

Writer == {1}

NextKinds ==
    \/ \E s \in Sessions : Begin(s)
    \/ \E s \in Sessions : Commit(s)
    \/ \E s \in Sessions : Rollback(s)
    \/ \E s \in Sessions, oid \in {"orders_v", "pg_type"}, add \in BOOLEAN :
          MigrateExistingTable(s, oid, add)
    \/ \E s \in Sessions : Resume(s)
    \/ \E s \in Sessions : DeadlockAbort(s)

SpecKinds == Init /\ [][NextKinds]_vars

NextCompat ==
    \/ \E s \in Sessions : Begin(s)
    \/ \E s \in Sessions : Commit(s)
    \/ \E s \in Sessions : Rollback(s)
    \/ \E s \in Sessions, oid \in Oids : CheckBackwardCompatibility(s, oid)
    \/ \E s \in Sessions, add \in BOOLEAN : MigrateExistingTable(s, "events", add)
    \/ \E s \in Writer, oid \in {"events", "orders", InvalidOid}, op \in Operations :
          ValidateOperationCompatibility(s, oid, op)
    \/ \E s \in Sessions : Resume(s)

SpecCompat == Init /\ [][NextCompat]_vars

NextRows ==
    \/ \E s \in Writer : Begin(s)
    \/ \E s \in Writer : Commit(s)
    \/ \E s \in Writer : Rollback(s)
    \/ \E s \in Writer, add \in BOOLEAN : MigrateExistingTable(s, "orders", add)
    \/ \E t \in Relations : AlterTableAddColumn(t)
    \/ \E s \in Writer : InsertRow(s)
    \/ \E s \in Writer, r \in Rows, supplied \in SuppliedTimes :
          UpdateRow(s, r, supplied)
    \/ \E s \in Writer, rel \in {"orders", NullRelation}, slot \in SUBSET Rows :
          ExecScanWithImplicitColumns(s, rel, slot)

SpecRows == Init /\ [][NextRows]_vars

\* the clock starts one tick before the epoch of the timestamp type
\* (2000-01-01 00:00:00 UTC)
InitTime ==
    /\ cat = [t \in Relations |-> [i \in Slots |-> NoTuple]]
    /\ natts = [t \in Relations |-> MaxAtts]
    /\ pc = [s \in Sessions |-> "idle"]
    /\ pend = [s \in Sessions |-> NoPend]
    /\ lock = [t \in Relations |-> {}]
    /\ last = NoCall
    /\ heap = [r \in Rows |-> NoTuple]
    /\ clock = -TickUsecs
    /\ implicit_error_context_stack = [s \in Sessions |-> EmptyStack]

\* two writers with different time zones
TimeWriters == {1, NSessions}

NextTime ==
    \/ \E s \in TimeWriters : Begin(s)
    \/ \E s \in TimeWriters : Commit(s)
    \/ \E s \in TimeWriters : Rollback(s)
    \/ \E s \in Writer : MigrateExistingTable(s, "orders", TRUE)
    \/ \E s \in TimeWriters : InsertRow(s)
    \/ \E s \in TimeWriters, r \in Rows, supplied \in SuppliedTimes :
          UpdateRow(s, r, supplied)
    \/ Tick

SpecTime == InitTime /\ [][NextTime]_vars

NextOneWriter ==
    \/ \E s \in Writer : Begin(s)
    \/ \E s \in Writer : Commit(s)
    \/ \E s \in Writer : Rollback(s)
    \/ \E s \in Writer : MigrateExistingTable(s, "orders", TRUE)
    \/ \E s \in Writer : InsertRow(s)
    \/ \E s \in Writer, r \in Rows, supplied \in SuppliedTimes :
          UpdateRow(s, r, supplied)
    \/ Tick

SpecOneWriter == InitTime /\ [][NextOneWriter]_vars

\* the ids the lookups are called with
LookupOids == {"orders", "logs", "nosuch", InvalidOid}

NextLookup ==
    \/ \E s \in TimeWriters : Begin(s)
    \/ \E s \in TimeWriters : Commit(s)
    \/ \E s \in TimeWriters : Rollback(s)
    \/ \E s \in Writer, add \in BOOLEAN : MigrateExistingTable(s, "orders", add)
    \/ \E s \in TimeWriters : AddImplicitTimeColumn(s, "logs")
    \/ \E s \in TimeWriters \ Writer : RemoveImplicitTimeColumn(s, "logs")
    \/ \E s \in TimeWriters : Resume(s)
    \/ AlterTableAddColumn("orders")
    \/ \E s \in Writer, oid \in LookupOids : TableHasImplicitTime(s, oid)
    \/ \E s \in Writer, oid \in LookupOids : GetImplicitTimeAttnum(s, oid)
    \/ \E s \in Writer, oid \in LookupOids : GetTableImplicitInfo(s, oid)
    \/ \E s \in Writer, oid \in {"orders", InvalidOid},
             name \in {IMPLICIT_TIME_COLUMN_NAME, "created", NullName} :
          IsImplicitColumn(s, oid, name)

SpecLookup == Init /\ [][NextLookup]_vars

NextCorrupt ==
    \/ \E s \in Writer : Begin(s)
    \/ \E s \in Writer : Commit(s)
    \/ \E s \in Writer : Rollback(s)
    \/ \E s \in Writer, attnum \in BadAttnums : CatalogDirectInsert(s, "orders", attnum)
    \/ \E s \in Writer : RemoveImplicitTimeColumn(s, "orders")
    \/ \E s \in Writer : GetImplicitTimeAttnum(s, "orders")
    \/ \E s \in Writer : GetTableImplicitInfo(s, "orders")
    \/ \E s \in Writer : InsertRow(s)
    \/ \E s \in Writer, slot \in SUBSET Rows :
          ExecScanWithImplicitColumns(s, "orders", slot)

SpecCorrupt == Init /\ [][NextCorrupt]_vars

NextStale ==
    \/ \E s \in Sessions : Begin(s)
    \/ \E s \in Sessions : Commit(s)
    \/ \E s \in Sessions : Rollback(s)
    \/ \E s \in Sessions, add \in BOOLEAN : MigrateCheck(s, "orders", add)
    \/ \E s \in Sessions : MigrateOpen(s)
    \/ \E s \in Sessions : Resume(s)
    \/ AlterTableAddColumn("orders")

SpecStale == Init /\ [][NextStale]_vars

\* one session scans "orders" while the other adds and removes its
\* descriptor with direct calls
NextScanRace ==
    \/ \E s \in TimeWriters : Begin(s)
    \/ \E s \in TimeWriters : Commit(s)
    \/ \E s \in TimeWriters : Rollback(s)
    \/ \E s \in TimeWriters \ Writer : AddImplicitTimeColumn(s, "orders")
    \/ \E s \in TimeWriters \ Writer : RemoveImplicitTimeColumn(s, "orders")
    \/ \E s \in Writer : InsertRow(s)
    \/ \E s \in Writer, rel \in {"orders", NullRelation}, slot \in SUBSET Rows :
          ScanBegin(s, rel, slot)
    \/ \E s \in Writer : ScanFinish(s)

SpecScanRace == Init /\ [][NextScanRace]_vars

\* one backend pushes and pops error contexts
NextStack ==
    \/ \E s \in Writer, context \in Contexts : ErrorContextPush(s, context)
    \/ \E s \in Writer : ErrorContextPop(s)

SpecStack == Init /\ [][NextStack]_vars

====
